---- MODULE Spec2Model ----
(***************************************************************************)
(* Model of pkg/app/service.go (AppServiceImpl): the versioned state       *)
(* cloning done by ReleaseApp and DuplicateApp and the read path of        *)
(* GetMegaData.  Every storage call of a handler is one step, so that a    *)
(* storage failure can strike between any two calls.                       *)
(***************************************************************************)
EXTENDS Integers, Sequences, FiniteSets, TLC

\* ------------------------------------------------------------------ bounds
MaxVersion == 2      \* releases of one app that the model follows
MaxApps == 2         \* app records the store may hold
MaxFaults == 1       \* storage failures injected in one behaviour
MaxRows == 4         \* tree rows stored when the last release starts (SpecApps)
MaxLen == 3          \* length of the lists handed to convertLink on its own

\* --------------------------------------------------------------- constants
APP_EDIT_VERSION == 0
KV_STATE_TYPE_DEPENDENCIES == "dependencies"
KV_STATE_TYPE_DRAG_SHADOW == "dragShadow"
KV_STATE_TYPE_DOTTED_LINE_SQUARE == "dottedLineSquare"
SET_STATE_TYPE_DISPLAY_NAME == "displayName"

type_array ==
  << "transformer", "restapi", "graphql", "redis", "mysql", "mariadb",
     "postgresql", "mongodb", "tidb", "elasticsearch", "s3", "smtp",
     "supabasedb", "firebase", "clickhouse", "mssql", "huggingface",
     "dynamodb", "snowflake", "couchdb", "hfendpoint", "oracle" >>

Procs == {1, 2}      \* handler invocations that may be in progress
Users == {9}         \* actors handed to DuplicateApp
Names == {"Copy"}    \* names handed to DuplicateApp

\* ------------------------------------------------------------ Go map[int]int
EmptyMap == [k \in {} |-> 0]

\* m[k] of a Go map: the zero value when the key is absent
MapGet(m, k) == IF k \in DOMAIN m THEN m[k] ELSE 0

\* m[k] = v
MapPut(m, k, v) == [x \in (DOMAIN m) \cup {k} |-> IF x = k THEN v ELSE m[x]]

\* ------------------------------------------------- JSON text of []int
\* A string is a sequence of one-character strings.
Digits == << "0", "1", "2", "3", "4", "5", "6", "7", "8", "9" >>

IsDigit(c) == \E d \in 1..10 : Digits[d] = c

DigitVal(c) == (CHOOSE d \in 1..10 : Digits[d] = c) - 1

RECURSIVE Itoa(_)
Itoa(n) == IF n < 0 THEN << "-" >> \o Itoa(0 - n)
           ELSE IF n < 10 THEN << Digits[n + 1] >>
           ELSE Itoa(n \div 10) \o << Digits[(n % 10) + 1] >>

RECURSIVE Atoi(_)
Atoi(s) == IF Len(s) = 0 THEN 0
           ELSE IF s[1] = "-" THEN 0 - Atoi(Tail(s))
           ELSE 10 * Atoi(SubSeq(s, 1, Len(s) - 1)) + DigitVal(s[Len(s)])

\* a JSON number that json.Unmarshal stores into a Go int: an optional
\* minus sign, then digits with no leading zero; no fraction, no exponent
IsJsonInt(s) ==
  LET d == IF Len(s) > 0 /\ s[1] = "-" THEN Tail(s) ELSE s
  IN /\ Len(d) > 0
     /\ \A i \in 1..Len(d) : IsDigit(d[i])
     /\ (Len(d) > 1 => d[1] # "0")

\* s without the white space around it
RECURSIVE TrimSpace(_)
TrimSpace(s) ==
  IF Len(s) > 0 /\ s[1] = " " THEN TrimSpace(Tail(s))
  ELSE IF Len(s) > 0 /\ s[Len(s)] = " " THEN TrimSpace(SubSeq(s, 1, Len(s) - 1))
  ELSE s

RECURSIVE JoinInts(_)
JoinInts(ids) ==
  IF Len(ids) = 0 THEN << >>
  ELSE IF Len(ids) = 1 THEN Itoa(ids[1])
  ELSE Itoa(ids[1]) \o << "," >> \o JoinInts(Tail(ids))

\* json.Marshal([]int): never fails
JsonMarshalInts(ids) == << "[" >> \o JoinInts(ids) \o << "]" >>

\* the pieces of s between commas
RECURSIVE SplitComma(_, _)
SplitComma(s, cur) ==
  IF Len(s) = 0 THEN << cur >>
  ELSE IF Head(s) = "," THEN << cur >> \o SplitComma(Tail(s), << >>)
  ELSE SplitComma(Tail(s), Append(cur, Head(s)))

JsonNull == << "n", "u", "l", "l" >>

\* json.Unmarshal([]byte(text), &oldIDs) with oldIDs a nil []int.  err is
\* TRUE on a syntax error and on an element that is not a number (val is
\* not used then), and on a number with a fraction (the decoder goes on and
\* fills the slice, val, all the same); a null element leaves the zero value.
JsonUnmarshalInts(text) ==
  LET s == TrimSpace(text)
  IN IF s = JsonNull THEN [err |-> FALSE, val |-> << >>]
     ELSE IF Len(s) < 2 \/ s[1] # "[" \/ s[Len(s)] # "]"
     THEN [err |-> TRUE, val |-> << >>]
     ELSE LET body == TrimSpace(SubSeq(s, 2, Len(s) - 1))
              split == SplitComma(body, << >>)
              parts == [i \in 1..Len(split) |-> TrimSpace(split[i])]
              IsFloat(t) == \E j \in 1..Len(t) :
                              /\ t[j] = "."
                              /\ IsJsonInt(SubSeq(t, 1, j - 1))
                              /\ j < Len(t)
                              /\ \A x \in (j + 1)..Len(t) : IsDigit(t[x])
              IsValue(t) == IsJsonInt(t) \/ t = JsonNull \/ IsFloat(t)
          IN IF Len(body) = 0 THEN [err |-> FALSE, val |-> << >>]
             ELSE IF \E i \in 1..Len(parts) : ~IsValue(parts[i])
             THEN [err |-> TRUE, val |-> << >>]
             ELSE [err |-> \E i \in 1..Len(parts) : IsFloat(parts[i]),
                   val |-> [i \in 1..Len(parts) |->
                              IF IsJsonInt(parts[i]) THEN Atoi(parts[i]) ELSE 0]]

\* (mutant) the error of json.Unmarshal is not looked at
convertLinkIgnoringError(ref, idMap) ==
  LET dec == JsonUnmarshalInts(ref)
  IN JsonMarshalInts([i \in 1..Len(dec.val) |-> MapGet(idMap, dec.val[i])])

\* (mutant) the loop reads the position (for oldID := range oldIDs), not
\* the element
convertLinkByIndex(ref, idMap) ==
  LET dec == JsonUnmarshalInts(ref)
  IN IF dec.err THEN << >>
     ELSE JsonMarshalInts([i \in 1..Len(dec.val) |-> MapGet(idMap, i - 1)])

\* convertLink(ref, idMap)
convertLink(ref, idMap) ==
  LET dec == JsonUnmarshalInts(ref)
  IN IF dec.err THEN << >>
     ELSE JsonMarshalInts([i \in 1..Len(dec.val) |-> MapGet(idMap, dec.val[i])])

\* ------------------------------------------------- JSON text of kv values
\* The serialized values the drafts hold (with ' written for the double
\* quote) and what json.Unmarshal makes of each of them.
\* json.Unmarshal into []string; the target stays nil (<< >>) on an error
JsonUnmarshalStrings(text) ==
  CASE text = "['input1']" -> << "input1" >>
    [] OTHER -> << >>

\* json.Unmarshal into map[string]interface{}, as a list of key/value pairs;
\* the target stays nil (<< >>) on an error
JsonUnmarshalObject(text) ==
  CASE text = "{'x':'1'}" -> << << "x", "1" >> >>
    [] text = "{'w':'2'}" -> << << "w", "2" >> >>
    [] OTHER -> << >>

\* --------------------------------------------------------------------- rows
\* Timestamps (time.Now()) are left out of every record.
TreeRow(id, app, version, parent, children, name, content, user) ==
  [ID |-> id, StateType |-> "components", ParentNodeRefID |-> parent,
   ChildrenNodeRefIDs |-> children, AppRefID |-> app, Version |-> version,
   Name |-> name, Content |-> content, CreatedBy |-> user, UpdatedBy |-> user]

KVRow(id, app, version, type, key, value, user) ==
  [ID |-> id, StateType |-> type, AppRefID |-> app, Version |-> version,
   Key |-> key, Value |-> value, CreatedBy |-> user, UpdatedBy |-> user]

SetRow(id, app, version, value, user) ==
  [ID |-> id, StateType |-> SET_STATE_TYPE_DISPLAY_NAME, AppRefID |-> app,
   Version |-> version, Value |-> value, CreatedBy |-> user, UpdatedBy |-> user]

ActionRow(id, app, version, resource, name, type, template, user) ==
  [ID |-> id, App |-> app, Version |-> version, Resource |-> resource,
   Name |-> name, Type |-> type, Template |-> template,
   Transformer |-> "{}", TriggerMode |-> "manually",
   CreatedBy |-> user, UpdatedBy |-> user]

AppRow(id, name, release, mainline, createdBy, updatedBy) ==
  [ID |-> id, Name |-> name, ReleaseVersion |-> release,
   MainlineVersion |-> mainline, CreatedBy |-> createdBy, UpdatedBy |-> updatedBy]

\* the &App{} that a failed lookup hands back
NoApp == AppRow(0, "", 0, 0, 0, 0)

\* ------------------------------------------------------------------- drafts
\* The drafts that editing (outside this file) may have left for app 1,
\* whose root CreateApp made: a lone root, a root with two leaves, and a
\* chain whose identifiers run against the direction of the tree.
DraftTrees ==
  { << TreeRow(1, 1, 0, 0, JsonMarshalInts(<< >>), "root", "c0", 1) >>,
    << TreeRow(1, 1, 0, 0, JsonMarshalInts(<< 2, 3 >>), "root", "c0", 1),
       TreeRow(2, 1, 0, 1, JsonMarshalInts(<< >>), "btn1", "c1", 1),
       TreeRow(3, 1, 0, 1, JsonMarshalInts(<< >>), "input1", "c2", 1) >>,
    << TreeRow(1, 1, 0, 2, JsonMarshalInts(<< >>), "input1", "c2", 1),
       TreeRow(2, 1, 0, 3, JsonMarshalInts(<< 1 >>), "btn1", "c1", 1),
       TreeRow(3, 1, 0, 0, JsonMarshalInts(<< 2 >>), "root", "c0", 1) >> }

\* Drafts that break the tree invariant: references to rows that do not
\* exist (7, 8, 9), and children fields that are not the encoding of an
\* integer list ([2,x], the empty string, [1,2.5]).
DamagedTrees ==
  { << TreeRow(1, 1, 0, 0, JsonMarshalInts(<< 2, 7 >>), "root", "c0", 1),
       TreeRow(2, 1, 0, 1, JsonMarshalInts(<< >>), "btn1", "c1", 1),
       TreeRow(3, 1, 0, 8, JsonMarshalInts(<< 9, 2 >>), "input1", "c2", 1) >>,
    << TreeRow(1, 1, 0, 0, << "[", "2", ",", "x", "]" >>, "root", "c0", 1),
       TreeRow(2, 1, 0, 1, << >>, "btn1", "c1", 1),
       TreeRow(3, 1, 0, 1, << "[", "1", ",", "2", ".", "5", "]" >>, "input1", "c2", 1) >> }

\* kv, set and action rows of the draft of app 1: none, or one of each kind
DraftAux ==
  { [kv |-> << >>, set |-> << >>, action |-> << >>],
    [kv |-> << KVRow(1, 1, 0, KV_STATE_TYPE_DEPENDENCIES, "btn1", "['input1']", 1),
               KVRow(2, 1, 0, KV_STATE_TYPE_DRAG_SHADOW, "u1", "{'x':'1'}", 1),
               KVRow(3, 1, 0, KV_STATE_TYPE_DOTTED_LINE_SQUARE, "u2", "{'w':'2'}", 1) >>,
     set |-> << SetRow(1, 1, 0, "btn1", 1), SetRow(2, 1, 0, "input1", 1) >>,
     action |-> << ActionRow(1, 1, 0, 4, "restapi1", 1, "{'url':'u'}", 1) >>] }

\* -------------------------------------------------------------------- state
VARIABLES
  apps,         \* app table: apps[id] is the record with identifier id
  treeStore,    \* tree_states table, treeStore[id].ID = id
  kvStore,      \* kv_states table
  setStore,     \* set_states table
  actionStore,  \* actions table
  proc,         \* proc[p]: position and locals of the invocation p runs
  faults,       \* storage failures injected so far
  released,     \* history: one record per ReleaseApp that found its app
  link          \* a call of convertLink on its own: argument, mapping, result

vars == << apps, treeStore, kvStore, setStore, actionStore, proc, faults, released, link >>

stores == << apps, treeStore, kvStore, setStore, actionStore >>

EmptyDoc ==
  [AppInfo |-> NoApp, Actions |-> << >>, DependenciesState |-> << >>,
   DragShadowState |-> << >>, DottedLineSquareState |-> << >>,
   DisplayNameState |-> << >>]

\* no call of convertLink on its own
NoLink == [pc |-> "none", list |-> << >>, ref |-> << >>, idMap |-> << >>, out |-> << >>]

\* an invocation that has not started
Idle ==
  [pc |-> "idle", op |-> "none",
   appID |-> 0,            \* the appID argument
   version |-> 0,          \* the version argument of GetMegaData
   found |-> FALSE,        \* RetrieveAppByID returned a record
   app |-> NoApp,          \* app (ReleaseApp, fetchEditor) or appB (DuplicateApp)
   tVer |-> 0,             \* version given to the cloned rows
   user |-> 0,             \* the userID argument of DuplicateApp
   name |-> "",            \* the name argument of DuplicateApp
   rows |-> << >>,         \* treestates / kvstates / setstates / actions
   indexIDMap |-> << >>,
   releaseIDMap |-> EmptyMap,
   i |-> 0,                \* loop position
   failed |-> FALSE,       \* history: a storage call of this invocation failed
   v0 |-> 0,               \* history: the stored mainlineVersion at the call
   n0 |-> 0,               \* history: the number of app records at the call
   made |-> [tree |-> {}, kv |-> {}, set |-> {}, action |-> {}],  \* history: rows created
   updated |-> {},         \* history: positions whose relink Update was issued
   errs |-> {},            \* history: the calls (by position) that returned an error
   ret |-> [val |-> 0, err |-> FALSE, doc |-> EmptyDoc]]

Init ==
  /\ apps = << AppRow(1, "App", 0, 0, 1, 1) >>
  /\ treeStore \in DraftTrees
  /\ \E aux \in DraftAux :
       /\ kvStore = aux.kv
       /\ setStore = aux.set
       /\ actionStore = aux.action
  /\ proc = [p \in Procs |-> Idle]
  /\ faults = 0
  /\ released = {}
  /\ link = NoLink

\* ------------------------------------------------------------- repositories
\* appRepository.RetrieveAppByID: an error when no record has the identifier
AppExists(appID) == appID \in DOMAIN apps

RetrieveAppByID(appID) == IF AppExists(appID) THEN apps[appID] ELSE NoApp

\* treestateRepository.RetrieveAllTypeTreeStatesByApp
RetrieveAllTypeTreeStatesByApp(app, version) ==
  SelectSeq(treeStore, LAMBDA r : r.AppRefID = app /\ r.Version = version)

\* kvstateRepository.RetrieveAllTypeKVStatesByApp
RetrieveAllTypeKVStatesByApp(app, version) ==
  SelectSeq(kvStore, LAMBDA r : r.AppRefID = app /\ r.Version = version)

\* kvstateRepository.RetrieveKVStatesByApp
RetrieveKVStatesByApp(app, type, version) ==
  SelectSeq(kvStore, LAMBDA r : r.AppRefID = app /\ r.StateType = type /\ r.Version = version)

\* setstateRepository.RetrieveSetStatesByApp
RetrieveSetStatesByApp(app, type, version) ==
  SelectSeq(setStore, LAMBDA r : r.AppRefID = app /\ r.StateType = type /\ r.Version = version)

\* actionRepository.RetrieveActionsByAppVersion
RetrieveActionsByAppVersion(app, version) ==
  SelectSeq(actionStore, LAMBDA r : r.App = app /\ r.Version = version)

\* Create of any repository: the store assigns the next serial identifier,
\* writes it into the row and inserts the row
NewID(store) == Len(store) + 1

Insert(store, row) == Append(store, [row EXCEPT !.ID = NewID(store)])

\* treestateRepository.Update / appRepository.Update: by identifier; no
\* record has the identifier 0, so such an update changes nothing
UpdateByID(store, row) ==
  IF row.ID \in DOMAIN store THEN [store EXCEPT ![row.ID] = row] ELSE store

\* ------------------------------------------------------------------ cloning
\* releaseTreeStateByApp, releaseKVStateByApp, releaseSetStateByApp,
\* releaseActionsByApp: the fields rewritten before the rows are created
ReleaseFields(row, version) == [row EXCEPT !.ID = 0, !.Version = version]

\* (mutant) the copy keeps the app reference of its source
CopyFieldsSameApp(row, appB, user) ==
  [row EXCEPT !.ID = 0, !.Version = APP_EDIT_VERSION,
              !.CreatedBy = user, !.UpdatedBy = user]

\* copyAllTreeState, copyAllKVState, copyAllSetState
CopyFields(row, appB, user) ==
  [row EXCEPT !.ID = 0, !.AppRefID = appB, !.Version = APP_EDIT_VERSION,
              !.CreatedBy = user, !.UpdatedBy = user]

\* copyActions
CopyActionFields(row, appB, user) ==
  [row EXCEPT !.ID = 0, !.App = appB, !.Version = APP_EDIT_VERSION,
              !.CreatedBy = user, !.UpdatedBy = user]

\* the rows as the first loop of a clone leaves them
Rewritten(L, got) ==
  [k \in 1..Len(got) |->
     IF L.op = "release" THEN ReleaseFields(got[k], L.tVer)
     ELSE CopyFields(got[k], L.app.ID, L.user)]

RewrittenActions(L, got) ==
  [k \in 1..Len(got) |->
     IF L.op = "release" THEN ReleaseFields(got[k], L.tVer)
     ELSE CopyActionFields(got[k], L.app.ID, L.user)]

\* (mutant) the relink pass addresses the row it was cloned from
RelinkedSourceRow(L, k) ==
  [L.rows[k] EXCEPT
     !.ID = L.indexIDMap[k],
     !.ChildrenNodeRefIDs = convertLink(L.rows[k].ChildrenNodeRefIDs, L.releaseIDMap),
     !.ParentNodeRefID = MapGet(L.releaseIDMap, L.rows[k].ParentNodeRefID)]

\* (mutant) a parent reference without an entry in the mapping is kept
RelinkedKeepingDangling(L, k) ==
  [L.rows[k] EXCEPT
     !.ChildrenNodeRefIDs = convertLink(L.rows[k].ChildrenNodeRefIDs, L.releaseIDMap),
     !.ParentNodeRefID = IF L.rows[k].ParentNodeRefID \in DOMAIN L.releaseIDMap
                         THEN L.releaseIDMap[L.rows[k].ParentNodeRefID]
                         ELSE L.rows[k].ParentNodeRefID]

\* the row that the relink loop hands to treestateRepository.Update
Relinked(L, k) ==
  [L.rows[k] EXCEPT
     !.ChildrenNodeRefIDs = convertLink(L.rows[k].ChildrenNodeRefIDs, L.releaseIDMap),
     !.ParentNodeRefID = MapGet(L.releaseIDMap, L.rows[k].ParentNodeRefID)]

Cloning(p) == proc[p].op \in {"release", "duplicate"}

\* (mutant) after an error the call is tried again
FailsAndRetries(p, next) ==
  /\ faults < MaxFaults
  /\ faults' = faults + 1
  /\ proc' = [proc EXCEPT ![p].failed = TRUE, ![p].errs = @ \cup {proc[p].pc}]
  /\ UNCHANGED << stores, released, link >>

\* a storage call fails: the clone of this kind returns the error, which
\* ReleaseApp and DuplicateApp drop, and the next kind is cloned
Fails(p, next) ==
  /\ faults < MaxFaults
  /\ faults' = faults + 1
  /\ proc' = [proc EXCEPT ![p].pc = next, ![p].failed = TRUE,
                          ![p].errs = @ \cup {proc[p].pc}]
  /\ UNCHANGED << stores, released, link >>

\* after a successful create or update of row L.i
Advance(L, again, next) ==
  IF L.i < Len(L.rows) THEN [L EXCEPT !.i = L.i + 1, !.pc = again]
  ELSE [L EXCEPT !.i = 1, !.pc = next]

TreeRetrieve(p) ==
  /\ Cloning(p) /\ proc[p].pc = "tree_retrieve"
  /\ \/ Fails(p, "kv_retrieve")
     \/ LET L == proc[p]
            got == RetrieveAllTypeTreeStatesByApp(L.appID, APP_EDIT_VERSION)
        IN /\ proc' = [proc EXCEPT ![p] =
                 [L EXCEPT !.rows = Rewritten(L, got),
                           !.indexIDMap = [k \in 1..Len(got) |-> got[k].ID],
                           !.releaseIDMap = EmptyMap,
                           !.i = 1,
                           !.pc = IF Len(got) = 0 THEN "kv_retrieve" ELSE "tree_create"]]
           /\ UNCHANGED << stores, faults, released, link >>

\* (mutant) a failed create leaves the create loop and the relink loop runs
TreeCreateThenRelink(p) ==
  /\ Cloning(p) /\ proc[p].pc = "tree_create"
  /\ \/ Fails(p, "tree_update")
     \/ LET L == proc[p]
            id == NewID(treeStore)
            L2 == [L EXCEPT !.rows[L.i].ID = id,
                            !.releaseIDMap = MapPut(L.releaseIDMap, L.indexIDMap[L.i], id),
                            !.made.tree = @ \cup {id}]
        IN /\ treeStore' = Insert(treeStore, L.rows[L.i])
           /\ proc' = [proc EXCEPT ![p] = Advance(L2, "tree_create", "tree_update")]
           /\ UNCHANGED << apps, kvStore, setStore, actionStore, faults, released, link >>

TreeCreate(p) ==
  /\ Cloning(p) /\ proc[p].pc = "tree_create"
  /\ \/ Fails(p, "kv_retrieve")
     \/ LET L == proc[p]
            id == NewID(treeStore)
            L2 == [L EXCEPT !.rows[L.i].ID = id,
                            !.releaseIDMap = MapPut(L.releaseIDMap, L.indexIDMap[L.i], id),
                            !.made.tree = @ \cup {id}]
        IN /\ treeStore' = Insert(treeStore, L.rows[L.i])
           /\ proc' = [proc EXCEPT ![p] = Advance(L2, "tree_create", "tree_update")]
           /\ UNCHANGED << apps, kvStore, setStore, actionStore, faults, released, link >>

TreeUpdate(p) ==
  /\ Cloning(p) /\ proc[p].pc = "tree_update"
  /\ \/ Fails(p, "kv_retrieve")
     \/ LET L == proc[p]
            row == Relinked(L, L.i)
        IN /\ treeStore' = UpdateByID(treeStore, row)
           /\ proc' = [proc EXCEPT ![p] =
                 Advance([L EXCEPT !.rows[L.i] = row, !.updated = @ \cup {L.i}],
                         "tree_update", "kv_retrieve")]
           /\ UNCHANGED << apps, kvStore, setStore, actionStore, faults, released, link >>

KVRetrieve(p) ==
  /\ Cloning(p) /\ proc[p].pc = "kv_retrieve"
  /\ \/ Fails(p, "set_retrieve")
     \/ LET L == proc[p]
            got == RetrieveAllTypeKVStatesByApp(L.appID, APP_EDIT_VERSION)
        IN /\ proc' = [proc EXCEPT ![p] =
                 [L EXCEPT !.rows = Rewritten(L, got), !.i = 1,
                           !.pc = IF Len(got) = 0 THEN "set_retrieve" ELSE "kv_create"]]
           /\ UNCHANGED << stores, faults, released, link >>

KVCreate(p) ==
  /\ Cloning(p) /\ proc[p].pc = "kv_create"
  /\ \/ Fails(p, "set_retrieve")
     \/ LET L == proc[p]
            id == NewID(kvStore)
            L2 == [L EXCEPT !.rows[L.i].ID = id, !.made.kv = @ \cup {id}]
        IN /\ kvStore' = Insert(kvStore, L.rows[L.i])
           /\ proc' = [proc EXCEPT ![p] = Advance(L2, "kv_create", "set_retrieve")]
           /\ UNCHANGED << apps, treeStore, setStore, actionStore, faults, released, link >>

SetRetrieve(p) ==
  /\ Cloning(p) /\ proc[p].pc = "set_retrieve"
  /\ \/ Fails(p, "action_retrieve")
     \/ LET L == proc[p]
            got == RetrieveSetStatesByApp(L.appID, SET_STATE_TYPE_DISPLAY_NAME, APP_EDIT_VERSION)
        IN /\ proc' = [proc EXCEPT ![p] =
                 [L EXCEPT !.rows = Rewritten(L, got), !.i = 1,
                           !.pc = IF Len(got) = 0 THEN "action_retrieve" ELSE "set_create"]]
           /\ UNCHANGED << stores, faults, released, link >>

SetCreate(p) ==
  /\ Cloning(p) /\ proc[p].pc = "set_create"
  /\ \/ Fails(p, "action_retrieve")
     \/ LET L == proc[p]
            id == NewID(setStore)
            L2 == [L EXCEPT !.rows[L.i].ID = id, !.made.set = @ \cup {id}]
        IN /\ setStore' = Insert(setStore, L.rows[L.i])
           /\ proc' = [proc EXCEPT ![p] = Advance(L2, "set_create", "action_retrieve")]
           /\ UNCHANGED << apps, treeStore, kvStore, actionStore, faults, released, link >>

ActionRetrieve(p) ==
  /\ Cloning(p) /\ proc[p].pc = "action_retrieve"
  /\ \/ Fails(p, "finish")
     \/ LET L == proc[p]
            got == RetrieveActionsByAppVersion(L.appID, APP_EDIT_VERSION)
        IN /\ proc' = [proc EXCEPT ![p] =
                 [L EXCEPT !.rows = RewrittenActions(L, got), !.i = 1,
                           !.pc = IF Len(got) = 0 THEN "finish" ELSE "action_create"]]
           /\ UNCHANGED << stores, faults, released, link >>

ActionCreate(p) ==
  /\ Cloning(p) /\ proc[p].pc = "action_create"
  /\ \/ Fails(p, "finish")
     \/ LET L == proc[p]
            id == NewID(actionStore)
            L2 == [L EXCEPT !.rows[L.i].ID = id, !.made.action = @ \cup {id}]
        IN /\ actionStore' = Insert(actionStore, L.rows[L.i])
           /\ proc' = [proc EXCEPT ![p] = Advance(L2, "action_create", "finish")]
           /\ UNCHANGED << apps, treeStore, kvStore, setStore, faults, released, link >>

\* --------------------------------------------------------------- ReleaseApp
AppIDs == 1..(MaxApps + 1)       \* identifiers a caller may pass

\* (mutant) the release version is left as it was
BumpedMainlineOnly(app) ==
  [app EXCEPT !.MainlineVersion = app.MainlineVersion + 1]

\* app.MainlineVersion += 1; app.ReleaseVersion = app.MainlineVersion
Bumped(app) ==
  [app EXCEPT !.MainlineVersion = app.MainlineVersion + 1,
              !.ReleaseVersion = app.MainlineVersion + 1]

ReleaseApp(p, appID) ==
  /\ proc[p].pc = "idle"
  /\ IF ~AppExists(appID)
     THEN proc' = [proc EXCEPT ![p] =
            [Idle EXCEPT !.pc = "done", !.op = "release", !.appID = appID,
                         !.ret = [val |-> -1, err |-> FALSE, doc |-> EmptyDoc]]]
     ELSE LET app == Bumped(RetrieveAppByID(appID))
          IN /\ apps[appID].MainlineVersion < MaxVersion
             /\ proc' = [proc EXCEPT ![p] =
                  [Idle EXCEPT !.pc = "tree_retrieve", !.op = "release",
                               !.appID = appID, !.found = TRUE, !.app = app,
                               !.tVer = app.MainlineVersion,
                               !.v0 = apps[appID].MainlineVersion,
                               !.n0 = Len(apps)]]
  /\ UNCHANGED << stores, faults, released, link >>

\* appRepository.Update(app) and the return of ReleaseApp
ReleaseAppUpdate(p) ==
  /\ proc[p].op = "release" /\ proc[p].pc = "finish"
  /\ LET L == proc[p]
     IN \/ /\ faults < MaxFaults
           /\ faults' = faults + 1
           /\ proc' = [proc EXCEPT ![p] =
                [L EXCEPT !.pc = "done", !.failed = TRUE,
                          !.ret = [val |-> -1, err |-> FALSE, doc |-> EmptyDoc]]]
           /\ released' = released \cup
                {[app |-> L.appID, version |-> -1, clean |-> FALSE]}
           /\ UNCHANGED << stores, link >>
        \/ /\ apps' = UpdateByID(apps, L.app)
           /\ proc' = [proc EXCEPT ![p] =
                [L EXCEPT !.pc = "done",
                          !.ret = [val |-> L.app.ReleaseVersion, err |-> FALSE,
                                   doc |-> EmptyDoc]]]
           /\ released' = released \cup
                {[app |-> L.appID, version |-> L.app.ReleaseVersion, clean |-> ~L.failed]}
           /\ UNCHANGED << treeStore, kvStore, setStore, actionStore, faults, link >>

\* ------------------------------------------------------------- DuplicateApp
\* (mutant) the counters of the source app are kept
DraftedKeepingCounters(appA, userID) ==
  [appA EXCEPT !.CreatedBy = userID, !.UpdatedBy = userID]

\* appA as DuplicateApp resets it before the new record is created
Drafted(appA, userID) ==
  [appA EXCEPT !.ReleaseVersion = 0, !.MainlineVersion = 0,
               !.CreatedBy = userID, !.UpdatedBy = userID]

\* (mutant) the error of RetrieveAppByID is not checked: the record is created
\* from the zero-value app and the clones run
DuplicateAppUnchecked(p, appID, userID, name) ==
  /\ proc[p].pc = "idle"
  /\ Len(apps) < MaxApps
  /\ LET appA == Drafted(RetrieveAppByID(appID), userID)
         id == NewID(apps)
         appB == AppRow(id, name, appA.ReleaseVersion, appA.MainlineVersion,
                        appA.CreatedBy, appA.UpdatedBy)
     IN /\ apps' = Insert(apps, [appB EXCEPT !.ID = 0])
        /\ proc' = [proc EXCEPT ![p] =
             [Idle EXCEPT !.pc = "tree_retrieve", !.op = "duplicate",
                          !.appID = appID, !.found = AppExists(appID),
                          !.user = userID, !.name = name, !.app = appB,
                          !.tVer = APP_EDIT_VERSION, !.n0 = Len(apps)]]
        /\ UNCHANGED << treeStore, kvStore, setStore, actionStore,
                        faults, released, link >>

DuplicateApp(p, appID, userID, name) ==
  /\ proc[p].pc = "idle"
  /\ IF ~AppExists(appID)
     THEN /\ proc' = [proc EXCEPT ![p] =
               [Idle EXCEPT !.pc = "done", !.op = "duplicate", !.appID = appID,
                            !.user = userID, !.name = name,
                            !.n0 = Len(apps),
                            !.ret = [val |-> 0, err |-> TRUE, doc |-> EmptyDoc]]]
          /\ UNCHANGED << stores, faults, released, link >>
     ELSE /\ Len(apps) < MaxApps
          /\ \/ /\ faults < MaxFaults           \* appRepository.Create fails
                /\ faults' = faults + 1
                /\ proc' = [proc EXCEPT ![p] =
                     [Idle EXCEPT !.pc = "done", !.op = "duplicate", !.appID = appID,
                                  !.found = TRUE, !.user = userID, !.name = name,
                                  !.failed = TRUE,
                                  !.n0 = Len(apps),
                                  !.ret = [val |-> 0, err |-> TRUE, doc |-> EmptyDoc]]]
                /\ UNCHANGED << stores, released, link >>
             \/ LET appA == Drafted(RetrieveAppByID(appID), userID)
                    id == NewID(apps)
                    appB == AppRow(id, name, appA.ReleaseVersion, appA.MainlineVersion,
                                   appA.CreatedBy, appA.UpdatedBy)
                IN /\ apps' = Insert(apps, [appB EXCEPT !.ID = 0])
                   /\ proc' = [proc EXCEPT ![p] =
                        [Idle EXCEPT !.pc = "tree_retrieve", !.op = "duplicate",
                                     !.appID = appID, !.found = TRUE, !.user = userID,
                                     !.name = name, !.app = appB, !.tVer = APP_EDIT_VERSION,
                                     !.n0 = Len(apps)]]
                   /\ UNCHANGED << treeStore, kvStore, setStore, actionStore,
                                   faults, released, link >>

\* return appB, nil
DuplicateAppReturn(p) ==
  /\ proc[p].op = "duplicate" /\ proc[p].pc = "finish"
  /\ proc' = [proc EXCEPT ![p].pc = "done",
                          ![p].ret = [val |-> proc[p].app.ID, err |-> FALSE,
                                      doc |-> EmptyDoc]]
  /\ UNCHANGED << stores, faults, released, link >>

\* -------------------------------------------------------------- GetMegaData
\* a Go value that may be nil
GoNil == [nil |-> TRUE, v |-> << >>]

Some(v) == [nil |-> FALSE, v |-> v]

\* resMap[rows[j].Key] = values[j] for j = 1, 2, ...: a later row replaces
\* an earlier one with the same key
KeyedBy(rows, values) ==
  [k \in { rows[j].Key : j \in 1..Len(rows) } |->
     LET last == CHOOSE j \in 1..Len(rows) :
                   /\ rows[j].Key = k
                   /\ \A j2 \in 1..Len(rows) : rows[j2].Key = k => j2 <= j
     IN values[last]]

formatActions(appID, version) ==
  LET res == RetrieveActionsByAppVersion(appID, version)
  IN [j \in 1..Len(res) |->
        [ID |-> res[j].ID, Resource |-> res[j].Resource, DisplayName |-> res[j].Name,
         Type |-> type_array[res[j].Type + 1], Transformer |-> res[j].Transformer,
         TriggerMode |-> res[j].TriggerMode, Template |-> res[j].Template,
         CreatedBy |-> res[j].CreatedBy, UpdatedBy |-> res[j].UpdatedBy]]

formatDependenciesState(appID, version) ==
  LET res == RetrieveKVStatesByApp(appID, KV_STATE_TYPE_DEPENDENCIES, version)
  IN KeyedBy(res, [j \in 1..Len(res) |-> JsonUnmarshalStrings(res[j].Value)])

\* a value held in an interface{}: a map[string]interface{} or a string
GoObject(pairs) == [type |-> "map", pairs |-> pairs, str |-> ""]

GoString(str) == [type |-> "string", pairs |-> << >>, str |-> str]

formatDragShadowState(appID, version) ==
  LET res == RetrieveKVStatesByApp(appID, KV_STATE_TYPE_DRAG_SHADOW, version)
  IN KeyedBy(res, [j \in 1..Len(res) |-> GoObject(JsonUnmarshalObject(res[j].Value))])

\* the value stored under the key is line.Value, the row's string, not revMsg
formatDottedLineSquareState(appID, version) ==
  LET res == RetrieveKVStatesByApp(appID, KV_STATE_TYPE_DOTTED_LINE_SQUARE, version)
  IN KeyedBy(res, [j \in 1..Len(res) |-> GoString(res[j].Value)])

formatDisplayNameState(appID, version) ==
  LET res == RetrieveSetStatesByApp(appID, SET_STATE_TYPE_DISPLAY_NAME, version)
  IN [j \in 1..Len(res) |-> res[j].Value]

\* the retrievals of fetchEditor that may fail, and the failures followed
FetchKinds == {"actions", "dependencies", "dragShadow", "dottedLineSquare", "displayName"}

FailPatterns == { {}, {"dependencies"}, FetchKinds }

\* (mutant) the version check is off by one
fetchEditorStrict(appID, version, fails) ==
  LET app == RetrieveAppByID(appID)
  IN IF ~AppExists(appID) \/ app.ID = 0 \/ version >= app.MainlineVersion
     THEN [err |-> TRUE, doc |-> EmptyDoc]
     ELSE [err |-> FALSE, doc |-> [EmptyDoc EXCEPT !.AppInfo = app]]

\* (mutant) an error of a per-kind retrieval is returned to the caller
fetchEditorPropagating(appID, version, fails) ==
  LET app == RetrieveAppByID(appID)
  IN IF ~AppExists(appID) \/ app.ID = 0 \/ version > app.MainlineVersion
        \/ fails # {}
     THEN [err |-> TRUE, doc |-> EmptyDoc]
     ELSE [err |-> FALSE, doc |-> [EmptyDoc EXCEPT !.AppInfo = app]]

\* fetchEditor; `fails` are the retrievals that return an error.  The
\* component tree (formatComponents, buildComponentTree) is read too and
\* is left out of the document here.
fetchEditor(appID, version, fails) ==
  LET app == RetrieveAppByID(appID)
  IN IF ~AppExists(appID) THEN [err |-> TRUE, doc |-> EmptyDoc]
     ELSE IF app.ID = 0 \/ version > app.MainlineVersion
     THEN [err |-> TRUE, doc |-> EmptyDoc]
     ELSE [err |-> FALSE,
           doc |-> [AppInfo |-> [app EXCEPT !.CreatedBy = 0],
                    Actions |-> IF "actions" \in fails THEN GoNil
                                ELSE Some(formatActions(appID, version)),
                    DependenciesState |->
                      IF "dependencies" \in fails THEN GoNil
                      ELSE Some(formatDependenciesState(appID, version)),
                    DragShadowState |->
                      IF "dragShadow" \in fails THEN GoNil
                      ELSE Some(formatDragShadowState(appID, version)),
                    DottedLineSquareState |->
                      IF "dottedLineSquare" \in fails THEN GoNil
                      ELSE Some(formatDottedLineSquareState(appID, version)),
                    DisplayNameState |->
                      IF "displayName" \in fails THEN GoNil
                      ELSE Some(formatDisplayNameState(appID, version))]]

Versions == 0..(MaxVersion + 1)     \* versions a caller may ask for

\* (mutant) a successful read is recorded in the app record
GetMegaDataTouchingApp(p, appID, version, fails) ==
  /\ proc[p].pc = "idle"
  /\ LET res == fetchEditor(appID, version, fails)
     IN /\ proc' = [proc EXCEPT ![p] =
             [Idle EXCEPT !.pc = "done", !.op = "get", !.appID = appID,
                          !.version = version, !.found = AppExists(appID),
                          !.app = RetrieveAppByID(appID),
                          !.ret = [val |-> 0, err |-> res.err, doc |-> res.doc]]]
        /\ apps' = IF res.err THEN apps
                   ELSE UpdateByID(apps, [apps[appID] EXCEPT !.UpdatedBy = 0])
  /\ UNCHANGED << treeStore, kvStore, setStore, actionStore, faults, released, link >>

GetMegaData(p, appID, version, fails) ==
  /\ proc[p].pc = "idle"
  /\ LET res == fetchEditor(appID, version, fails)
     IN proc' = [proc EXCEPT ![p] =
          [Idle EXCEPT !.pc = "done", !.op = "get", !.appID = appID,
                       !.version = version, !.found = AppExists(appID),
                       !.app = RetrieveAppByID(appID),
                       !.ret = [val |-> 0, err |-> res.err, doc |-> res.doc]]]
  /\ UNCHANGED << stores, faults, released, link >>

\* the handler has returned; the invocation is over
Return(p) ==
  /\ proc[p].pc = "done"
  /\ proc' = [proc EXCEPT ![p] = Idle]
  /\ UNCHANGED << stores, faults, released, link >>

\* ------------------------------------------------------------ specification
Step(p) ==
  \/ \E appID \in AppIDs : ReleaseApp(p, appID)
  \/ \E appID \in AppIDs, userID \in Users, name \in Names :
       DuplicateApp(p, appID, userID, name)
  \/ \E appID \in AppIDs, version \in Versions, fails \in FailPatterns :
       GetMegaData(p, appID, version, fails)
  \/ TreeRetrieve(p) \/ TreeCreate(p) \/ TreeUpdate(p)
  \/ KVRetrieve(p) \/ KVCreate(p)
  \/ SetRetrieve(p) \/ SetCreate(p)
  \/ ActionRetrieve(p) \/ ActionCreate(p)
  \/ ReleaseAppUpdate(p) \/ DuplicateAppReturn(p)
  \/ Return(p)

\* the handlers run one at a time: process 1 runs every invocation
Next == Step(1)

Spec == Init /\ [][Next]_vars

\* ------------------------------------------------------ CreateApp, UpdateApp
initialComponet == "c0"     \* the content of the root component

\* the counters a caller may put into the AppDto handed to UpdateApp
DtoVersions == 0..1

\* appRepository.Create of CreateApp: both counters are set to 0
CreateApp(p, name, userID) ==
  /\ proc[p].pc = "idle"
  /\ Len(apps) < MaxApps
  /\ \/ /\ faults < MaxFaults               \* return AppDto{}, err
        /\ faults' = faults + 1
        /\ proc' = [proc EXCEPT ![p] =
             [Idle EXCEPT !.pc = "done", !.op = "create", !.user = userID,
                          !.name = name, !.failed = TRUE, !.n0 = Len(apps),
                          !.ret = [val |-> 0, err |-> TRUE, doc |-> EmptyDoc]]]
        /\ UNCHANGED << stores, released, link >>
     \/ LET app == AppRow(NewID(apps), name, 0, 0, userID, userID)
        IN /\ apps' = Insert(apps, [app EXCEPT !.ID = 0])
           /\ proc' = [proc EXCEPT ![p] =
                [Idle EXCEPT !.pc = "root_create", !.op = "create",
                             !.appID = app.ID, !.found = TRUE, !.app = app,
                             !.user = userID, !.name = name, !.n0 = Len(apps)]]
           /\ UNCHANGED << treeStore, kvStore, setStore, actionStore, faults, released, link >>

\* initialAllTypeTreeStates, whose error CreateApp drops, and return app, nil
CreateAppRoot(p) ==
  /\ proc[p].op = "create" /\ proc[p].pc = "root_create"
  /\ LET L == proc[p]
         done == [L EXCEPT !.pc = "done",
                           !.ret = [val |-> L.app.ID, err |-> FALSE, doc |-> EmptyDoc]]
     IN \/ /\ faults < MaxFaults
           /\ faults' = faults + 1
           /\ proc' = [proc EXCEPT ![p] = [done EXCEPT !.failed = TRUE]]
           /\ UNCHANGED << stores, released, link >>
        \/ /\ treeStore' = Insert(treeStore,
                TreeRow(0, L.app.ID, APP_EDIT_VERSION, 0, JsonMarshalInts(<< >>),
                        "root", initialComponet, L.user))
           /\ proc' = [proc EXCEPT ![p] = [done EXCEPT !.made.tree = {NewID(treeStore)}]]
           /\ UNCHANGED << apps, kvStore, setStore, actionStore, faults, released, link >>

\* UpdateApp: the record handed to appRepository.Update carries the name,
\* the counters and the updater of the caller's AppDto; CreatedBy is not set
UpdateApp(p, appID, name, release, mainline, userID) ==
  /\ proc[p].pc = "idle"
  /\ LET row == AppRow(appID, name, release, mainline, 0, userID)
         L == [Idle EXCEPT !.pc = "done", !.op = "update", !.appID = appID,
                           !.found = AppExists(appID), !.app = row,
                           !.user = userID, !.name = name, !.n0 = Len(apps),
                           !.v0 = RetrieveAppByID(appID).MainlineVersion]
     IN \/ /\ faults < MaxFaults               \* return AppDto{}, err
           /\ faults' = faults + 1
           /\ proc' = [proc EXCEPT ![p] =
                [L EXCEPT !.failed = TRUE,
                          !.ret = [val |-> 0, err |-> TRUE, doc |-> EmptyDoc]]]
           /\ UNCHANGED << stores, released, link >>
        \/ /\ apps' = UpdateByID(apps, row)
           /\ proc' = [proc EXCEPT ![p] =
                [L EXCEPT !.ret = [val |-> appID, err |-> FALSE, doc |-> EmptyDoc]]]
           /\ UNCHANGED << treeStore, kvStore, setStore, actionStore, faults, released, link >>

\* The store as the constructor leaves it: no app yet.
InitApps ==
  /\ apps = << >>
  /\ treeStore = << >> /\ kvStore = << >> /\ setStore = << >> /\ actionStore = << >>
  /\ proc = [p \in Procs |-> Idle]
  /\ faults = 0
  /\ released = {}
  /\ link = NoLink

\* Every operation of the service on apps that CreateApp made, one
\* invocation at a time.  No kv, set or action row is ever stored, so the
\* clones create tree rows only; a release starts while the tree table
\* holds fewer than MaxRows rows.
NextApps ==
  \/ \E name \in Names, userID \in Users : CreateApp(1, name, userID)
  \/ CreateAppRoot(1)
  \/ \E appID \in AppIDs, name \in Names, release \in DtoVersions,
        mainline \in DtoVersions, userID \in Users :
       UpdateApp(1, appID, name, release, mainline, userID)
  \/ \E appID \in AppIDs : Len(treeStore) < MaxRows /\ ReleaseApp(1, appID)
  \/ \E appID \in AppIDs, userID \in Users, name \in Names :
       DuplicateApp(1, appID, userID, name)
  \/ \E appID \in AppIDs, version \in Versions, fails \in FailPatterns :
       GetMegaData(1, appID, version, fails)
  \/ TreeRetrieve(1) \/ TreeCreate(1) \/ TreeUpdate(1)
  \/ KVRetrieve(1) \/ SetRetrieve(1) \/ ActionRetrieve(1)
  \/ ReleaseAppUpdate(1) \/ DuplicateAppReturn(1)
  \/ Return(1)

SpecApps == InitApps /\ [][NextApps]_vars

\* ----------------------------------------------------------- damaged drafts
\* the handlers, one at a time, on an app whose draft breaks the tree
\* invariant
InitDamaged ==
  /\ apps = << AppRow(1, "App", 0, 0, 1, 1) >>
  /\ treeStore \in DamagedTrees
  /\ \E aux \in DraftAux :
       /\ aux.kv # << >>
       /\ kvStore = aux.kv
       /\ setStore = aux.set
       /\ actionStore = aux.action
  /\ proc = [p \in Procs |-> Idle]
  /\ faults = 0
  /\ released = {}
  /\ link = NoLink

SpecDamaged == InitDamaged /\ [][Next]_vars

\* ------------------------------------------------------ convertLink alone
LinkIDs == 1..3                 \* identifiers in the lists
LinkTargets == {2, 10, 123}     \* identifiers the mappings give

Lists == UNION { [1..n -> LinkIDs] : n \in 0..MaxLen }

\* the identity on a set of identifiers, and the total mappings
LinkMaps ==
  { [k \in S |-> k] : S \in SUBSET LinkIDs } \cup [LinkIDs -> LinkTargets]

\* an encoded list and a mapping are about to be handed to convertLink
InitLink ==
  /\ apps = << >>
  /\ treeStore = << >> /\ kvStore = << >> /\ setStore = << >> /\ actionStore = << >>
  /\ proc = [p \in Procs |-> Idle]
  /\ faults = 0
  /\ released = {}
  /\ \E L \in Lists, m \in LinkMaps :
       link = [pc |-> "in", list |-> L, ref |-> JsonMarshalInts(L),
               idMap |-> m, out |-> << >>]

ConvertLinkCall ==
  /\ link.pc = "in"
  /\ link' = [link EXCEPT !.pc = "out", !.out = convertLink(link.ref, link.idMap)]
  /\ UNCHANGED << stores, proc, faults, released >>

NextLink == ConvertLinkCall

SpecLink == InitLink /\ [][NextLink]_vars

\* ------------------------------------------------- interleaved invocations
\* Two requests are served at once: each process runs one invocation of a
\* handler, and the storage calls of the two interleave in any order.
InitInterleaved ==
  /\ apps = << AppRow(1, "App", 0, 0, 1, 1) >>
  /\ treeStore = << TreeRow(1, 1, 0, 0, JsonMarshalInts(<< 2 >>), "root", "c0", 1),
                    TreeRow(2, 1, 0, 1, JsonMarshalInts(<< >>), "btn1", "c1", 1) >>
  /\ kvStore = << KVRow(1, 1, 0, KV_STATE_TYPE_DEPENDENCIES, "btn1", "['input1']", 1) >>
  /\ setStore = << SetRow(1, 1, 0, "btn1", 1) >>
  /\ actionStore = << ActionRow(1, 1, 0, 4, "restapi1", 1, "{'url':'u'}", 1) >>
  /\ proc = [p \in Procs |-> Idle]
  /\ faults = 0
  /\ released = {}
  /\ link = NoLink

\* the steps of the one invocation that process p runs
Invocation(p) ==
  \/ \E appID \in AppIDs : ReleaseApp(p, appID)
  \/ \E appID \in AppIDs, userID \in Users, name \in Names :
       DuplicateApp(p, appID, userID, name)
  \/ \E appID \in AppIDs, version \in Versions, fails \in FailPatterns :
       GetMegaData(p, appID, version, fails)
  \/ TreeRetrieve(p) \/ TreeCreate(p) \/ TreeUpdate(p)
  \/ KVRetrieve(p) \/ KVCreate(p)
  \/ SetRetrieve(p) \/ SetCreate(p)
  \/ ActionRetrieve(p) \/ ActionCreate(p)
  \/ ReleaseAppUpdate(p) \/ DuplicateAppReturn(p)

NextInterleaved == \E p \in Procs : Invocation(p)

SpecInterleaved == InitInterleaved /\ [][NextInterleaved]_vars

\* ------------------------------------------------------------------ helpers
TreeAt(app, version) == RetrieveAllTypeTreeStatesByApp(app, version)

IDsOf(rows) == { rows[j].ID : j \in 1..Len(rows) }

RowOf(rows, id) == rows[CHOOSE j \in 1..Len(rows) : rows[j].ID = id]

ChildrenOf(row) == JsonUnmarshalInts(row.ChildrenNodeRefIDs)

\* the app whose rows the invocation of p creates
TargetApp(p) == IF proc[p].op = "duplicate" THEN proc[p].app.ID ELSE proc[p].appID

\* id reaches the root of rows in at most n parent steps
RECURSIVE ReachesRoot(_, _, _)
ReachesRoot(rows, id, n) ==
  /\ id \in IDsOf(rows)
  /\ \/ RowOf(rows, id).ParentNodeRefID = 0
     \/ /\ n > 0
        /\ ReachesRoot(rows, RowOf(rows, id).ParentNodeRefID, n - 1)

\* the tree invariant of one (app, version): one root, every reference
\* resolves, parent and children references agree, no cycle
IsRootedTree(rows) ==
  /\ Cardinality({ j \in 1..Len(rows) : rows[j].ParentNodeRefID = 0 }) = 1
  /\ \A j \in 1..Len(rows) :
       /\ ~ChildrenOf(rows[j]).err
       /\ ReachesRoot(rows, rows[j].ID, Len(rows))
       /\ \A c \in 1..Len(ChildrenOf(rows[j]).val) :
            LET cid == ChildrenOf(rows[j]).val[c]
            IN cid \in IDsOf(rows) /\ RowOf(rows, cid).ParentNodeRefID = rows[j].ID
       /\ rows[j].ParentNodeRefID # 0 =>
            \E c \in 1..Len(ChildrenOf(RowOf(rows, rows[j].ParentNodeRefID)).val) :
               ChildrenOf(RowOf(rows, rows[j].ParentNodeRefID)).val[c] = rows[j].ID

\* f maps every node of src to a node of tgt that carries the images of its
\* parent reference and of its ordered children list
Embeds(src, tgt, f) ==
  /\ \A a, b \in DOMAIN f : f[a] = f[b] => a = b
  /\ \A j \in 1..Len(src) :
       LET s == src[j]
           t == RowOf(tgt, f[s.ID])
           sc == ChildrenOf(s).val
       IN /\ t.ParentNodeRefID = (IF s.ParentNodeRefID = 0 THEN 0 ELSE f[s.ParentNodeRefID])
          /\ ~ChildrenOf(t).err
          /\ ChildrenOf(t).val = [c \in 1..Len(sc) |-> f[sc[c]]]
          /\ t.Name = s.Name /\ t.Content = s.Content

Isomorphic(src, tgt) ==
  /\ Len(src) = Len(tgt)
  /\ IDsOf(src) \cap IDsOf(tgt) = {}
  /\ \E f \in [IDsOf(src) -> IDsOf(tgt)] :
       /\ { f[a] : a \in DOMAIN f } = IDsOf(tgt)
       /\ Embeds(src, tgt, f)

\* p has returned from a ReleaseApp or DuplicateApp that found its app and
\* in which every storage call succeeded
CleanClone(p) ==
  /\ proc[p].pc = "done" /\ Cloning(p)
  /\ proc[p].found /\ ~proc[p].failed

\* ----------------------------------------------------------------------- C1
\* C1: after a ReleaseApp or DuplicateApp in which every storage call
\* succeeded, the tree rows of the target (app, version) are isomorphic to
\* the source draft tree: as many nodes, a bijection old id -> new id that
\* carries parent references and ordered children lists, no shared id.
C1_CloneIsomorphic ==
  \A p \in Procs :
    (CleanClone(p) /\ IsRootedTree(TreeAt(proc[p].appID, APP_EDIT_VERSION)))
      => Isomorphic(TreeAt(proc[p].appID, APP_EDIT_VERSION),
                    TreeAt(TargetApp(p), proc[p].tVer))

\* ----------------------------------------------------------------------- C2
\* the rows stored for the draft of an app, in every store
Draft(app) ==
  << RetrieveAllTypeTreeStatesByApp(app, APP_EDIT_VERSION),
     RetrieveAllTypeKVStatesByApp(app, APP_EDIT_VERSION),
     RetrieveSetStatesByApp(app, SET_STATE_TYPE_DISPLAY_NAME, APP_EDIT_VERSION),
     RetrieveActionsByAppVersion(app, APP_EDIT_VERSION) >>

\* C2: no step of a ReleaseApp or DuplicateApp invocation, failed storage
\* calls included, changes a tree, kv, set or action row of the source
\* draft: same identifiers, same content.
C2_SourceUntouched ==
  [][\A a \in AppIDs :
       (\E p \in Procs : Cloning(p) /\ proc[p].found /\ proc[p].appID = a)
         => Draft(a)' = Draft(a)]_vars

\* a clone whose relink pass has run and that a storage failure then cut short
C2_Witness ==
  \E p \in Procs :
    /\ proc[p].pc = "done" /\ Cloning(p) /\ proc[p].failed
    /\ \E id \in proc[p].made.tree :
         treeStore[id].ParentNodeRefID \in proc[p].made.tree
    /\ proc[p].made.kv # {}

\* ----------------------------------------------------------------------- C3
\* every row the invocation of p created carries version v
MadeAtVersion(p, v) ==
  /\ \A id \in proc[p].made.tree : treeStore[id].Version = v
  /\ \A id \in proc[p].made.kv : kvStore[id].Version = v
  /\ \A id \in proc[p].made.set : setStore[id].Version = v
  /\ \A id \in proc[p].made.action : actionStore[id].Version = v

ReleasesOf(a) == { r \in released : r.app = a }

\* C3: a ReleaseApp on an app whose stored mainlineVersion is v, with all
\* storage calls succeeding, leaves mainlineVersion = releaseVersion = v+1,
\* returns v+1 and gives version v+1 to every row it created; an app all of
\* whose n releases succeeded has mainlineVersion n.
C3_ReleaseAdvancesByOne ==
  /\ \A p \in Procs :
       (CleanClone(p) /\ proc[p].op = "release") =>
         /\ apps[proc[p].appID].MainlineVersion = proc[p].v0 + 1
         /\ apps[proc[p].appID].ReleaseVersion = proc[p].v0 + 1
         /\ proc[p].ret.val = proc[p].v0 + 1
         /\ ~proc[p].ret.err
         /\ MadeAtVersion(p, proc[p].v0 + 1)
  /\ \A a \in DOMAIN apps :
       (\A r \in ReleasesOf(a) : r.clean) =>
         apps[a].MainlineVersion = Cardinality(ReleasesOf(a))

\* the second release of an app in a row that succeeded, rows created
C3_Witness ==
  \E p \in Procs :
    /\ CleanClone(p) /\ proc[p].op = "release"
    /\ proc[p].v0 = 1
    /\ Cardinality(proc[p].made.tree) = 3 /\ proc[p].made.kv # {}
    /\ Cardinality(ReleasesOf(proc[p].appID)) = 2
    /\ \A r \in ReleasesOf(proc[p].appID) : r.clean

\* ----------------------------------------------------------------------- C4
\* the versions ReleaseApp has produced
Published == { r \in released : r.version > 0 }

\* C4: once ReleaseApp has produced version v+1 of an app, in every later
\* state in which the app exists GetMegaData of that version and of the
\* draft succeed.
C4_PublishedStaysRetrievable ==
  \A r \in Published :
    AppExists(r.app) =>
      \A fails \in FailPatterns :
        /\ ~fetchEditor(r.app, r.version, fails).err
        /\ ~fetchEditor(r.app, APP_EDIT_VERSION, fails).err

\* version 1 is read after version 2 was released
C4_Witness ==
  \E p \in Procs :
    /\ proc[p].pc = "done" /\ proc[p].op = "get"
    /\ proc[p].version = 1 /\ ~proc[p].ret.err
    /\ [app |-> proc[p].appID, version |-> 1, clean |-> TRUE] \in released
    /\ apps[proc[p].appID].MainlineVersion = 2

\* ----------------------------------------------------------------------- C5
\* C5: GetMegaData fails exactly when the app does not exist or the version
\* is greater than the stored mainlineVersion; otherwise it returns a
\* document and a nil error, whatever the per-kind retrievals return.
C5_NotFoundExactly ==
  \A p \in Procs :
    (proc[p].pc = "done" /\ proc[p].op = "get") =>
      LET missing == \/ ~AppExists(proc[p].appID)
                     \/ proc[p].version > apps[proc[p].appID].MainlineVersion
      IN /\ proc[p].ret.err <=> missing
         /\ ~missing => proc[p].ret.doc.AppInfo.ID = proc[p].appID

\* a published version is read while a per-kind retrieval fails
C5_Witness ==
  \E p \in Procs :
    /\ proc[p].pc = "done" /\ proc[p].op = "get"
    /\ proc[p].version = 1 /\ ~proc[p].ret.err
    /\ proc[p].ret.doc.Actions = GoNil
    /\ proc[p].ret.doc.DisplayNameState = GoNil

\* ----------------------------------------------------------------------- C6
\* what a kv, set or action row holds besides its identifier, its place
\* and its audit fields
KVContent(r) == << r.StateType, r.Key, r.Value >>

SetContent(r) == << r.StateType, r.Value >>

ActionContent(r) ==
  << r.Resource, r.Name, r.Type, r.Template, r.Transformer, r.TriggerMode >>

\* version v of app a holds a clone of every row of the draft of a, the
\* tree rows relinked
CompleteSnapshot(a, v) ==
  LET src == TreeAt(a, APP_EDIT_VERSION)
      tgt == TreeAt(a, v)
      kvs == RetrieveAllTypeKVStatesByApp(a, v)
      sets == RetrieveSetStatesByApp(a, SET_STATE_TYPE_DISPLAY_NAME, v)
      acts == RetrieveActionsByAppVersion(a, v)
  IN /\ Len(tgt) >= Len(src)
     /\ \E f \in [IDsOf(src) -> IDsOf(tgt)] : Embeds(src, tgt, f)
     /\ \A j \in 1..Len(Draft(a)[2]) :
          \E k \in 1..Len(kvs) : KVContent(kvs[k]) = KVContent(Draft(a)[2][j])
     /\ \A j \in 1..Len(Draft(a)[3]) :
          \E k \in 1..Len(sets) : SetContent(sets[k]) = SetContent(Draft(a)[3][j])
     /\ \A j \in 1..Len(Draft(a)[4]) :
          \E k \in 1..Len(acts) : ActionContent(acts[k]) = ActionContent(Draft(a)[4][j])

\* C6: in every reachable state, storage failures inside the clone steps
\* included, a stored mainlineVersion v > 0 means that version v holds a
\* complete snapshot of the draft; a failed clone step never leaves the
\* counters advanced.
C6_CountersImplySnapshot ==
  \A a \in DOMAIN apps :
    apps[a].MainlineVersion > 0 => CompleteSnapshot(a, apps[a].MainlineVersion)

\* ----------------------------------------------------------------------- C7
\* C7: a ReleaseApp or DuplicateApp in which a step failed (the app lookup,
\* a retrieve, a create, a relink update, the counter update) returns a
\* non-nil error.
C7_FailureIsReported ==
  \A p \in Procs :
    (proc[p].pc = "done" /\ Cloning(p) /\ (~proc[p].found \/ proc[p].failed))
      => proc[p].ret.err

\* ----------------------------------------------------------------------- C8
\* the assembled actions without identifiers and audit fields
ActionsShape(doc) ==
  [j \in 1..Len(doc.Actions.v) |->
     [doc.Actions.v[j] EXCEPT !.ID = 0, !.CreatedBy = 0, !.UpdatedBy = 0]]

\* C8: after a DuplicateApp in which every storage call succeeded, the
\* draft of the new app holds one cloned kv, set and action row per source
\* draft row, with the same kind, key, value and payload, so the kv maps,
\* the display names and the actions that GetMegaData assembles for the
\* two drafts are equal up to identifiers.
C8_DuplicateKeepsState ==
  \A p \in Procs :
    (CleanClone(p) /\ proc[p].op = "duplicate") =>
      LET a == proc[p].appID
          b == proc[p].app.ID
          da == fetchEditor(a, APP_EDIT_VERSION, {}).doc
          db == fetchEditor(b, APP_EDIT_VERSION, {}).doc
      IN /\ a # b
         /\ ~fetchEditor(b, APP_EDIT_VERSION, {}).err
         /\ Len(Draft(b)[2]) = Len(Draft(a)[2])
         /\ \A j \in 1..Len(Draft(a)[2]) :
              KVContent(Draft(b)[2][j]) = KVContent(Draft(a)[2][j])
         /\ Len(Draft(b)[3]) = Len(Draft(a)[3])
         /\ \A j \in 1..Len(Draft(a)[3]) :
              SetContent(Draft(b)[3][j]) = SetContent(Draft(a)[3][j])
         /\ Len(Draft(b)[4]) = Len(Draft(a)[4])
         /\ \A j \in 1..Len(Draft(a)[4]) :
              ActionContent(Draft(b)[4][j]) = ActionContent(Draft(a)[4][j])
         /\ db.DependenciesState = da.DependenciesState
         /\ db.DragShadowState = da.DragShadowState
         /\ db.DottedLineSquareState = da.DottedLineSquareState
         /\ db.DisplayNameState = da.DisplayNameState
         /\ ActionsShape(db) = ActionsShape(da)

\* the copy of a draft with the one dependency entry btn1 -> [input1]
C8_Witness ==
  \E p \in Procs :
    /\ CleanClone(p) /\ proc[p].op = "duplicate"
    /\ proc[p].app.ID # proc[p].appID
    /\ fetchEditor(proc[p].app.ID, APP_EDIT_VERSION, {}).doc.DependenciesState
         = Some([k \in {"btn1"} |-> << "input1" >>])
    /\ Len(fetchEditor(proc[p].app.ID, APP_EDIT_VERSION, {}).doc.Actions.v) = 1

\* ----------------------------------------------------------------------- C9
\* every row stored for app b is a row of its draft
OnlyDraftRows(b) ==
  /\ \A j \in 1..Len(treeStore) :
       treeStore[j].AppRefID = b => treeStore[j].Version = APP_EDIT_VERSION
  /\ \A j \in 1..Len(kvStore) :
       kvStore[j].AppRefID = b => kvStore[j].Version = APP_EDIT_VERSION
  /\ \A j \in 1..Len(setStore) :
       setStore[j].AppRefID = b => setStore[j].Version = APP_EDIT_VERSION
  /\ \A j \in 1..Len(actionStore) :
       actionStore[j].App = b => actionStore[j].Version = APP_EDIT_VERSION

\* C9: a DuplicateApp on an existing source app that returns its new app has
\* created exactly one app record, with an identifier other than the
\* source's, the supplied name, the supplied actor as creator and updater
\* and both version counters 0 whatever the source's counters are; the new
\* app has rows at version 0 only.  (When the create of the app record
\* fails, the error is returned and no record is created.)
C9_DuplicateCreatesDraftApp ==
  \A p \in Procs :
    (proc[p].pc = "done" /\ proc[p].op = "duplicate" /\ proc[p].found) =>
      IF proc[p].ret.err THEN Len(apps) = proc[p].n0
      ELSE LET b == proc[p].ret.val
           IN /\ Len(apps) = proc[p].n0 + 1
              /\ b \in DOMAIN apps /\ b \notin 1..proc[p].n0
              /\ b # proc[p].appID
              /\ apps[b].ID = b
              /\ apps[b].Name = proc[p].name /\ proc[p].name \in Names
              /\ apps[b].CreatedBy = proc[p].user
              /\ apps[b].UpdatedBy = proc[p].user
              /\ apps[b].MainlineVersion = 0
              /\ apps[b].ReleaseVersion = 0
              /\ OnlyDraftRows(b)

\* the copy of an app that has published versions
C9_Witness ==
  \E p \in Procs :
    /\ proc[p].pc = "done" /\ proc[p].op = "duplicate" /\ ~proc[p].ret.err
    /\ apps[proc[p].appID].MainlineVersion = 2
    /\ TreeAt(proc[p].appID, 2) # << >>
    /\ Len(TreeAt(proc[p].ret.val, APP_EDIT_VERSION)) = 3

\* ---------------------------------------------------------------------- C10
TreeRowsOfApp(a) == SelectSeq(treeStore, LAMBDA r : r.AppRefID = a)

\* C10: after DuplicateApp returns, with or without storage failures during
\* the copy, the rows of the two apps are disjoint and no tree row of the
\* new app holds a parent reference or a children entry that is the
\* identifier of a row of the source app.
C10_CloneIndependent ==
  \A p \in Procs :
    (proc[p].pc = "done" /\ proc[p].op = "duplicate" /\ ~proc[p].ret.err) =>
      LET src == IDsOf(TreeRowsOfApp(proc[p].appID))
          new == TreeRowsOfApp(proc[p].ret.val)
      IN /\ IDsOf(new) \cap src = {}
         /\ \A j \in 1..Len(new) :
              /\ new[j].ParentNodeRefID \notin src
              /\ \A c \in 1..Len(ChildrenOf(new[j]).val) :
                   ChildrenOf(new[j]).val[c] \notin src

\* ---------------------------------------------------------------------- C11
\* the rows stored at (a, v), in every store
RowsAt(a, v) ==
  << RetrieveAllTypeTreeStatesByApp(a, v),
     RetrieveAllTypeKVStatesByApp(a, v),
     SelectSeq(setStore, LAMBDA r : r.AppRefID = a /\ r.Version = v),
     RetrieveActionsByAppVersion(a, v) >>

\* the rows stored for app a, at every version
RowsOfApp(a) ==
  << TreeRowsOfApp(a),
     SelectSeq(kvStore, LAMBDA r : r.AppRefID = a),
     SelectSeq(setStore, LAMBDA r : r.AppRefID = a),
     SelectSeq(actionStore, LAMBDA r : r.App = a) >>

\* p is at a create or an update of a clone
Writing(p) ==
  /\ Cloning(p)
  /\ proc[p].pc \in {"tree_create", "tree_update", "kv_create", "set_create",
                     "action_create"}

\* C11: no step of a ReleaseApp, DuplicateApp or GetMegaData invocation
\* adds a row to, changes a row of or removes a row from a version v of an
\* app with 1 <= v <= the stored mainlineVersion, and a step changes the
\* rows of an app only when a clone that targets this app is writing.
C11_PublishedImmutable ==
  [][/\ \A a \in DOMAIN apps :
          \A v \in 1..apps[a].MainlineVersion : RowsAt(a, v)' = RowsAt(a, v)
     /\ \A a \in AppIDs :
          RowsOfApp(a)' # RowsOfApp(a) =>
            \E p \in Procs : Writing(p) /\ TargetApp(p) = a]_vars

\* ---------------------------------------------------------------------- C12
\* C12: along any sequence of CreateApp, UpdateApp, ReleaseApp, DuplicateApp
\* and GetMegaData invocations no step lowers the stored mainlineVersion of
\* an app, and no step changes the rows of a version from 1 to the stored
\* mainlineVersion: only version 0 is mutable.
C12_MainlineNeverDecreases ==
  [][\A a \in DOMAIN apps :
       /\ apps'[a].MainlineVersion >= apps[a].MainlineVersion
       /\ \A v \in 1..apps[a].MainlineVersion : RowsAt(a, v)' = RowsAt(a, v)]_vars

\* ---------------------------------------------------------------------- C13
\* C13: in a tree clone no relink update is issued before a create has
\* succeeded for every source row and the old-id -> new-id mapping has an
\* entry for every source row; when the retrieval or a create failed, the
\* clone never reaches the relink loop.
C13_CreateAllBeforeRelink ==
  \A p \in Procs :
    (Cloning(p) /\ (proc[p].pc = "tree_update" \/ proc[p].updated # {})) =>
      /\ Cardinality(proc[p].made.tree) = Len(proc[p].indexIDMap)
      /\ \A k \in 1..Len(proc[p].indexIDMap) :
           /\ proc[p].indexIDMap[k] \in DOMAIN proc[p].releaseIDMap
           /\ proc[p].releaseIDMap[proc[p].indexIDMap[k]] \in proc[p].made.tree
      /\ proc[p].errs \cap {"tree_retrieve", "tree_create"} = {}

\* the relink loop of a three-row clone has issued its first update
C13_Witness ==
  \E p \in Procs :
    /\ Cloning(p) /\ proc[p].pc = "tree_update"
    /\ Len(proc[p].indexIDMap) = 3
    /\ proc[p].updated = {1}

\* ---------------------------------------------------------------------- C14
Kinds == {"tree", "kv", "set", "action"}

\* the positions of the clone of one kind
KindPcs(k) ==
  CASE k = "tree" -> {"tree_retrieve", "tree_create", "tree_update"}
    [] k = "kv" -> {"kv_retrieve", "kv_create"}
    [] k = "set" -> {"set_retrieve", "set_create"}
    [] k = "action" -> {"action_retrieve", "action_create"}

\* the rows p created are stored, in the app and version p writes to
MadeRowsStored(p) ==
  /\ \A id \in proc[p].made.tree :
       /\ id \in DOMAIN treeStore
       /\ treeStore[id].AppRefID = TargetApp(p) /\ treeStore[id].Version = proc[p].tVer
  /\ \A id \in proc[p].made.kv :
       /\ id \in DOMAIN kvStore
       /\ kvStore[id].AppRefID = TargetApp(p) /\ kvStore[id].Version = proc[p].tVer
  /\ \A id \in proc[p].made.set :
       /\ id \in DOMAIN setStore
       /\ setStore[id].AppRefID = TargetApp(p) /\ setStore[id].Version = proc[p].tVer
  /\ \A id \in proc[p].made.action :
       /\ id \in DOMAIN actionStore
       /\ actionStore[id].App = TargetApp(p) /\ actionStore[id].Version = proc[p].tVer

\* C14: once a storage call of the clone of one kind has returned an error,
\* the clone of that kind has returned (it is at none of its positions), it
\* had one failed call only, and no later step of the invocation creates or
\* updates a row of that kind; the rows the invocation created before the
\* failure stay stored.
C14_FailFast ==
  [][\A p \in Procs :
       (Cloning(p) /\ Cloning(p)') =>
         /\ MadeRowsStored(p)'
         /\ \A k \in Kinds :
              proc[p].errs \cap KindPcs(k) # {} =>
                /\ proc[p].pc \notin KindPcs(k)
                /\ Cardinality(proc[p].errs \cap KindPcs(k)) = 1
                /\ proc[p].made[k]' = proc[p].made[k]
                /\ k = "tree" => proc[p].updated' = proc[p].updated
                /\ (proc[p].errs \cap KindPcs(k))' = proc[p].errs \cap KindPcs(k)]_vars

\* the second tree create failed: the first row stays, kv rows were cloned
C14_Witness ==
  \E p \in Procs :
    /\ Cloning(p) /\ proc[p].pc = "done"
    /\ "tree_create" \in proc[p].errs
    /\ Cardinality(proc[p].made.tree) = 1
    /\ proc[p].made.kv # {}
    /\ MadeRowsStored(p)

\* ---------------------------------------------------------------------- C16
\* C16: for an encoded list L and a mapping that is the identity on the
\* elements of L, convertLink returns the encoding of L; for a total
\* mapping its result decodes to a list as long as L whose i-th element is
\* the image of the i-th element of L.
C16_ConvertLinkRoundTrip ==
  link.pc = "out" =>
    LET L == link.list
        m == link.idMap
        dec == JsonUnmarshalInts(link.out)
    IN /\ (\A i \in 1..Len(L) : L[i] \in DOMAIN m /\ m[L[i]] = L[i])
            => link.out = link.ref
       /\ LinkIDs \subseteq DOMAIN m =>
            /\ ~dec.err
            /\ Len(dec.val) = Len(L)
            /\ \A i \in 1..Len(L) : dec.val[i] = m[L[i]]

\* the list 3, 1, 3 went through a mapping with 3 -> 123 and 1 -> 10
C16_Witness ==
  /\ link.pc = "out"
  /\ link.list = << 3, 1, 3 >>
  /\ link.idMap = [k \in LinkIDs |-> IF k = 3 THEN 123 ELSE 10]
  /\ link.out = << "[", "1", "2", "3", ",", "1", "0", ",", "1", "2", "3", "]" >>

\* ---------------------------------------------------------------------- C15
\* what the relink pass is to make of the reference r under the mapping m
Translated(r, m) == IF r = 0 THEN 0 ELSE IF r \in DOMAIN m THEN m[r] ELSE 0

\* the source row at position k of the clone of p, and its clone as stored
SourceRow(p, k) == treeStore[proc[p].indexIDMap[k]]

CloneRow(p, k) == treeStore[proc[p].releaseIDMap[proc[p].indexIDMap[k]]]

\* C15: for every row whose relink update went through, the stored clone
\* holds parent 0 for parent 0, the mapped identifier for every parent or
\* children reference that has an entry in the mapping, and 0 for every
\* reference without an entry; the children list keeps its length and its
\* order, and no error is raised for the row.
C15_RelinkTranslates ==
  \A p \in Procs :
    /\ (CleanClone(p) /\ proc[p].indexIDMap # << >>) =>
         "tree_update" \notin proc[p].errs /\ proc[p].updated # {}
    /\ Cloning(p) =>
      \A k \in proc[p].updated :
        LET m == proc[p].releaseIDMap
            sc == ChildrenOf(SourceRow(p, k))
            tc == ChildrenOf(CloneRow(p, k))
        IN /\ CloneRow(p, k).ParentNodeRefID
                = Translated(SourceRow(p, k).ParentNodeRefID, m)
           /\ ~sc.err =>
                /\ ~tc.err
                /\ Len(tc.val) = Len(sc.val)
                /\ \A c \in 1..Len(sc.val) : tc.val[c] = Translated(sc.val[c], m)

\* the row with the parent 8 and the children 9, 2, of which only 2 exists
C15_Witness ==
  \E p \in Procs :
    /\ CleanClone(p) /\ proc[p].updated = {1, 2, 3}
    /\ SourceRow(p, 3).ParentNodeRefID = 8
    /\ ChildrenOf(SourceRow(p, 3)).val = << 9, 2 >>
    /\ CloneRow(p, 3).ParentNodeRefID = 0
    /\ ChildrenOf(CloneRow(p, 3)).val = << 0, proc[p].releaseIDMap[2] >>
    /\ CloneRow(p, 1).ParentNodeRefID = 0
    /\ CloneRow(p, 2).ParentNodeRefID = proc[p].releaseIDMap[1]

\* ---------------------------------------------------------------------- C17
\* C17: when the children field of a source row is not the encoding of an
\* integer list, the relinked clone holds the empty string, not a list of
\* the identifiers that were parsed; no error is raised for the row: its
\* update is issued, and a clone without a failed storage call relinks
\* every row and returns no error.
C17_MalformedDecodesToEmpty ==
  \A p \in Procs :
    Cloning(p) =>
      /\ \A k \in proc[p].updated :
           ChildrenOf(SourceRow(p, k)).err =>
             CloneRow(p, k).ChildrenNodeRefIDs = << >>
      /\ CleanClone(p) =>
           /\ proc[p].updated = 1..Len(proc[p].indexIDMap)
           /\ proc[p].errs = {} /\ ~proc[p].ret.err

\* the clone of the draft with the children fields [2,x], "" and [1,2.5]
C17_Witness ==
  \E p \in Procs :
    /\ CleanClone(p) /\ proc[p].updated = {1, 2, 3}
    /\ SourceRow(p, 1).ChildrenNodeRefIDs = << "[", "2", ",", "x", "]" >>
    /\ SourceRow(p, 3).ChildrenNodeRefIDs = << "[", "1", ",", "2", ".", "5", "]" >>
    /\ \A k \in 1..3 : CloneRow(p, k).ChildrenNodeRefIDs = << >>

\* ---------------------------------------------------------------------- C18
\* C18: the step of a GetMegaData invocation, for any app and version and
\* whether it returns a document or an error, leaves every app record (its
\* counters included) and every tree, kv, set and action row as they were.
C18_GetMegaDataReadsOnly ==
  [][\A p \in Procs :
       (proc[p].pc = "idle" /\ proc[p]'.op = "get") =>
         << apps, treeStore, kvStore, setStore, actionStore >>'
           = << apps, treeStore, kvStore, setStore, actionStore >>]_vars

\* version 1 of an app with kv rows and an action has been read
C18_Witness ==
  \E p \in Procs :
    /\ proc[p].pc = "done" /\ proc[p].op = "get" /\ ~proc[p].ret.err
    /\ proc[p].version = 1
    /\ Len(proc[p].ret.doc.Actions.v) = 1
    /\ DOMAIN proc[p].ret.doc.DependenciesState.v = {"btn1"}
    /\ Len(TreeAt(proc[p].appID, 1)) = 3

\* ---------------------------------------------------------------------- C19
\* the map has one entry per row, under the row's key, and the entry of
\* row j is values[j]
MapOfRows(map, rows, values) ==
  /\ ~map.nil
  /\ DOMAIN map.v = { rows[j].Key : j \in 1..Len(rows) }
  /\ Cardinality(DOMAIN map.v) = Len(rows)
  /\ \A j \in 1..Len(rows) : map.v[rows[j].Key] = values[j]

\* C19: in the document that GetMegaData returns for (app, version), each
\* of dependenciesState, dragShadowState and dottedLineSquareState whose
\* rows were retrieved has one entry per row of its kind, under the row's
\* key, holding the deserialized value of the row (a list of strings, an
\* object), not the stored string; without rows the map is empty, not nil.
C19_KVMapsHoldDeserializedValues ==
  \A p \in Procs :
    (proc[p].pc = "done" /\ proc[p].op = "get" /\ ~proc[p].ret.err) =>
      LET doc == proc[p].ret.doc
          deps == RetrieveKVStatesByApp(proc[p].appID, KV_STATE_TYPE_DEPENDENCIES,
                                        proc[p].version)
          drag == RetrieveKVStatesByApp(proc[p].appID, KV_STATE_TYPE_DRAG_SHADOW,
                                        proc[p].version)
          dots == RetrieveKVStatesByApp(proc[p].appID, KV_STATE_TYPE_DOTTED_LINE_SQUARE,
                                        proc[p].version)
      IN /\ ~doc.DependenciesState.nil =>
              MapOfRows(doc.DependenciesState, deps,
                        [j \in 1..Len(deps) |-> JsonUnmarshalStrings(deps[j].Value)])
         /\ ~doc.DragShadowState.nil =>
              MapOfRows(doc.DragShadowState, drag,
                        [j \in 1..Len(drag) |-> GoObject(JsonUnmarshalObject(drag[j].Value))])
         /\ ~doc.DottedLineSquareState.nil =>
              MapOfRows(doc.DottedLineSquareState, dots,
                        [j \in 1..Len(dots) |-> GoObject(JsonUnmarshalObject(dots[j].Value))])

\* ---------------------------------------------------------------------- C20
\* rows that the invocation of p has created
HasWritten(p) ==
  proc[p].made.tree \cup proc[p].made.kv \cup proc[p].made.set
    \cup proc[p].made.action # {}

\* C20: two ReleaseApp invocations on the same app, however their steps
\* interleave, do not write rows to the same version of the app, and the
\* versions they return differ.
C20_ReleasesTargetDistinctVersions ==
  \A p, q \in Procs :
    (/\ p # q
     /\ proc[p].op = "release" /\ proc[q].op = "release"
     /\ proc[p].found /\ proc[q].found
     /\ proc[p].appID = proc[q].appID) =>
      /\ (HasWritten(p) /\ HasWritten(q)) => proc[p].tVer # proc[q].tVer
      /\ (/\ proc[p].pc = "done" /\ proc[q].pc = "done"
          /\ proc[p].ret.val > 0 /\ proc[q].ret.val > 0) =>
           proc[p].ret.val # proc[q].ret.val

\* ---------------------------------------------------------------------- C21
\* C21: provided the draft of an app satisfies the tree invariant, the tree
\* rows stored at every published version v (1 <= v <= mainlineVersion) of
\* the app form one rooted tree: exactly one row with parent reference 0,
\* every parent reference and children entry is a row of the same (app, v),
\* no cycle. Also after a ReleaseApp that failed at the counter update and
\* was repeated.
C21_PublishedTreesRooted ==
  \A a \in 1..Len(apps) :
    IsRootedTree(TreeAt(a, APP_EDIT_VERSION))
      => \A v \in 1..apps[a].MainlineVersion : IsRootedTree(TreeAt(a, v))

\* ---------------------------------------------------------------------- C22
\* Two requests are served at once and a process that has returned serves
\* the next request: releases overlap with each other and with reads.
NextSnapshot ==
  \E p \in Procs :
    \/ \E appID \in AppIDs : Len(treeStore) < MaxRows /\ ReleaseApp(p, appID)
    \/ \E appID \in AppIDs, version \in Versions, fails \in FailPatterns :
         GetMegaData(p, appID, version, fails)
    \/ TreeRetrieve(p) \/ TreeCreate(p) \/ TreeUpdate(p)
    \/ KVRetrieve(p) \/ KVCreate(p)
    \/ SetRetrieve(p) \/ SetCreate(p)
    \/ ActionRetrieve(p) \/ ActionCreate(p)
    \/ ReleaseAppUpdate(p)
    \/ Return(p)

SpecSnapshot == InitInterleaved /\ [][NextSnapshot]_vars

\* the ReleaseApp of p has read its app and has not yet applied (or failed
\* to apply) its counter update
Constructing(p) ==
  /\ proc[p].op = "release" /\ proc[p].found
  /\ proc[p].pc # "done"

\* C22: while a ReleaseApp that read mainlineVersion v is creating and
\* relinking rows at version v+1, and until its counter update has been
\* applied, every GetMegaData(app, v+1) fails: the rows of the version are
\* not readable before the invocation has issued all its creates and relinks
\* and stored the counter.
C22_SnapshotInvisible ==
  [][\A p \in Procs : \A q \in Procs \ {p} :
       ( /\ Constructing(p)
         /\ proc[q].pc = "idle" /\ proc'[q].op = "get"
         /\ proc'[q].appID = proc[p].appID
         /\ proc'[q].version = proc[p].tVer )
         => proc'[q].ret.err]_vars

\* ---------------------------------------------------------------------- C23
\* C23: a ReleaseApp or DuplicateApp whose app lookup fails is over at that
\* step and the step leaves the store as it was: no app record is created,
\* no counter is changed, no tree, kv, set or action row is created or
\* updated by the invocation.
C23_FailedLookupWritesNothing ==
  [][\A p \in Procs :
       ( /\ proc'[p].op \in {"release", "duplicate"}
         /\ ~proc'[p].found )
         => /\ proc'[p].pc = "done"
            /\ proc'[p] # proc[p] => stores' = stores]_vars

\* a ReleaseApp and a DuplicateApp have both returned after a failed lookup
C23_Witness ==
  \E p \in Procs : \E q \in Procs \ {p} :
    /\ proc[p].op = "release" /\ proc[p].pc = "done" /\ ~proc[p].found
    /\ proc[p].ret.val = -1
    /\ proc[q].op = "duplicate" /\ proc[q].pc = "done" /\ ~proc[q].found
    /\ proc[q].ret.err
    /\ ~AppExists(proc[p].appID) /\ ~AppExists(proc[q].appID)

====
